---- MODULE Spec2Model ----
(***************************************************************************)
(* A model of wdq: typed accessors over a Wikidata entity's JSON record.   *)
(*                                                                         *)
(* State: the raw JSON record an entity object wraps (raw), the last       *)
(* operation invoked on it (op, args) with its outcome (ret), the log of   *)
(* HTTP fetches issued to the transport (fetches) and the number of        *)
(* resolve() calls made (resolves).                                        *)
(*                                                                         *)
(* Python values: a dict is a function (DOMAIN = the keys present), a JSON *)
(* object with optional keys is a record whose DOMAIN varies, a list is a  *)
(* sequence, None is <<>> and a present optional x is <<x>>.  The          *)
(* statements dict, whose iteration order is observable, is a sequence of  *)
(* <<key, value>> pairs with distinct keys.  An outcome is either          *)
(* [kind |-> "ok", value |-> v] or [kind |-> "raise", error |-> e].        *)
(***************************************************************************)
EXTENDS Integers, Sequences, FiniteSets, TLC

VARIABLES raw, op, args, ret, fetches, resolves

vars == <<raw, op, args, ret, fetches, resolves>>

(* ------------------------------ bounds -------------------------------- *)

\* longest fallback chain passed to default()
MaxChain == 2
\* most statements held by one statement collection
MaxStmts == 3
\* longest badge list of one sitelink
MaxBadges == 2
\* most resolve() calls in one run
MaxCalls == 3

(* --------------------------- Python helpers --------------------------- *)

None == <<>>
Some(x) == <<x>>

Ok(v) == [kind |-> "ok", value |-> v]
Raise(e) == [kind |-> "raise", error |-> e]

EmptyDict == [k \in {} |-> ""]

\* dict.get(k, default)
Get(d, k, default) == IF k \in DOMAIN d THEN d[k] ELSE default

Range(s) == {s[i] : i \in 1..Len(s)}

SeqsUpTo(S, n) == UNION {[1..k -> S] : k \in 0..n}

RECURSIVE Sum(_)
Sum(s) == IF s = <<>> THEN 0 ELSE Head(s) + Sum(Tail(s))

(* ---------------------- _BaseWikidataLD (labels) ---------------------- *)

\* the for loop of default(): the first language of the chain, from
\* position i on, that is a key of d; None when the loop runs out
RECURSIVE LD_default_loop(_, _, _)
LD_default_loop(d, chain, i) ==
    IF i > Len(chain) THEN None
    ELSE IF chain[i] \in DOMAIN d THEN Some(<<Some(chain[i]), d[chain[i]]>>)
    ELSE LD_default_loop(d, chain, i + 1)

LD_default_noraise(d, entity_id, fallback_chain, raise_error) ==
    LET chain == IF fallback_chain = None THEN <<"mul", "en">> ELSE fallback_chain[1]
        hit == LD_default_loop(d, chain, 1)
    IN  IF hit # None THEN Ok(hit[1]) ELSE Ok(<<None, entity_id>>)

\* _BaseWikidataLD.default(fallback_chain, raise_error)
LD_default(d, entity_id, fallback_chain, raise_error) ==
    LET chain == IF fallback_chain = None THEN <<"mul", "en">> ELSE fallback_chain[1]
        hit == LD_default_loop(d, chain, 1)
    IN  IF hit # None THEN Ok(hit[1])
        ELSE IF raise_error THEN Raise("KeyError")
        ELSE Ok(<<None, entity_id>>)

LD_getitem_placeholder(d, entity_id, key) ==
    Ok(LD_default(d, entity_id, Some(<<key, "mul", "en">>), FALSE).value[2])

\* _BaseWikidataLD.__getitem__(key)
LD_getitem(d, entity_id, key) ==
    LET r == LD_default(d, entity_id, Some(<<key, "mul", "en">>), FALSE).value
    IN  IF r[1] = None THEN Raise("KeyError") ELSE Ok(r[2])

\* _BaseWikidataLD.__len__
LD_len(d) == Cardinality(DOMAIN d)

(* --------------------------- WikidataAliases -------------------------- *)

\* the for loop of WikidataAliases.default(): union.update per language
RECURSIVE Aliases_default_loop(_, _, _, _)
Aliases_default_loop(d, chain, i, union) ==
    IF i > Len(chain) THEN union
    ELSE Aliases_default_loop(d, chain, i + 1,
                              union \cup Range(Get(d, chain[i], <<>>)))

\* WikidataAliases.default(fallback_chain)
Aliases_default(d, fallback_chain) ==
    LET chain == IF fallback_chain = None THEN <<"mul", "en">> ELSE fallback_chain[1]
    IN  Ok(Aliases_default_loop(d, chain, 1, {}))

Aliases_getitem_en(d, key) == Aliases_default(d, Some(<<key, "mul", "en">>))

\* WikidataAliases.__getitem__(key)
Aliases_getitem(d, key) == Aliases_default(d, Some(<<key, "mul">>))

\* WikidataAliases.all()
Aliases_all(d) == Ok(UNION {Range(d[k]) : k \in DOMAIN d})

\* WikidataAliases.naliases(): the sum of the per-language list lengths
RECURSIVE SumLens(_, _)
SumLens(d, keys) ==
    IF keys = {} THEN 0
    ELSE LET k == CHOOSE x \in keys : TRUE
         IN  Len(d[k]) + SumLens(d, keys \ {k})

Aliases_naliases(d) == Ok(SumLens(d, DOMAIN d))

(* ------------------------- WikidataSitelinks -------------------------- *)

\* the values of the WikidataSitelinkBadge enumeration
BadgeIds ==
    {"Q17437798", "Q17437796", "Q17559452", "Q17506997", "Q17580674",
     "Q20748091", "Q20748094", "Q20748092", "Q20748093", "Q28064618",
     "Q51759403", "Q70893996", "Q70894304"}

\* WikidataSitelinkBadge(badge_id) for every badge_id of the list, in order
Badges_decode(ids) ==
    IF \E i \in 1..Len(ids) : ids[i] \notin BadgeIds
    THEN Raise("ValueError")
    ELSE Ok(ids)

\* WikidataSitelink.from_raw(raw)
Sitelink_from_raw(r) ==
    IF "title" \notin DOMAIN r THEN Raise("KeyError")
    ELSE LET badges == Badges_decode(Get(r, "badges", <<>>))
         IN  IF badges.kind = "raise" THEN badges
             ELSE IF "url" \notin DOMAIN r THEN Raise("KeyError")
             ELSE Ok([title |-> r.title, badges |-> badges.value, url |-> r.url])

\* make_sitelinks(raw, item): every sitelink is decoded when the registry is built
make_sitelinks(d, item) ==
    IF \E site \in DOMAIN d : Sitelink_from_raw(d[site]).kind = "raise"
    THEN LET site == CHOOSE x \in DOMAIN d : Sitelink_from_raw(d[x]).kind = "raise"
         IN  Sitelink_from_raw(d[site])
    ELSE Ok([links |-> [site \in DOMAIN d |-> Sitelink_from_raw(d[site]).value],
             item |-> item])

Sitelinks_getitem_lenient(links, key) ==
    IF key \in DOMAIN links THEN Ok(links[key]) ELSE Ok(None)

\* WikidataSitelinks.__getitem__(key)
Sitelinks_getitem(links, key) ==
    IF key \in DOMAIN links THEN Ok(links[key]) ELSE Raise("KeyError")

\* WikidataSitelinks.__len__
Sitelinks_len(links) == Ok(Cardinality(DOMAIN links))

(* ------------------- statements, qualifiers, values ------------------- *)

\* the values of the WikidataStatementRank enumeration
Ranks == {"preferred", "normal", "deprecated"}

resolve_wikidata_value_datatype_first(prop, value) ==
    IF prop.data_type = "wikibase-item"
    THEN [cls |-> "WikidataItemValue", raw |-> value, type |-> "wikibase-item"]
    ELSE IF prop.data_type = "external-id"
    THEN [cls |-> "WikidataExternalIdentifierValue", raw |-> value,
          type |-> "external-id", prop |-> prop]
    ELSE IF value.type = "somevalue"
    THEN [cls |-> "WikidataSomeValue", raw |-> value, type |-> "somevalue"]
    ELSE IF value.type = "novalue"
    THEN [cls |-> "WikidataNoValue", raw |-> value, type |-> "novalue"]
    ELSE [cls |-> "WikidataValue", raw |-> value, type |-> prop.data_type]

\* _resolve_wikidata_value(prop, value): the value object, with the fields
\* BaseWikidataValue.__init__ (and the external identifier's) stores
resolve_wikidata_value(prop, value) ==
    IF value.type = "somevalue"
    THEN [cls |-> "WikidataSomeValue", raw |-> value, type |-> "somevalue"]
    ELSE IF value.type = "novalue"
    THEN [cls |-> "WikidataNoValue", raw |-> value, type |-> "novalue"]
    ELSE IF prop.data_type = "wikibase-item"
    THEN [cls |-> "WikidataItemValue", raw |-> value, type |-> "wikibase-item"]
    ELSE IF prop.data_type = "external-id"
    THEN [cls |-> "WikidataExternalIdentifierValue", raw |-> value,
          type |-> "external-id", prop |-> prop]
    ELSE [cls |-> "WikidataValue", raw |-> value, type |-> prop.data_type]

\* BaseWikidataValue.raw_content, WikidataItemValue.id,
\* WikidataExternalIdentifierValue.id: all read _raw["content"]
Value_content(v) ==
    IF "content" \in DOMAIN v.raw THEN Ok(v.raw.content) ELSE Raise("KeyError")

\* the property accessor of a statement, qualifier or reference part
Part_property(r) == [id |-> r.property.id, data_type |-> r.property.data_type]

\* the value accessor of a statement, qualifier or reference part
Part_value(r) == resolve_wikidata_value(Part_property(r), r.value)

Statement_rank_no_default(s) == Get(s, "rank", "deprecated")

\* WikidataStatement.rank
Statement_rank(s) == Get(s, "rank", "normal")

\* WikidataStatement.qualifiers
Statement_qualifiers(s) == Get(s, "qualifiers", <<>>)

\* WikidataStatement.references
Statement_references(s) == Get(s, "references", <<>>)

\* WikidataReference.parts
Reference_parts(r) == Get(r, "parts", <<>>)

(* ------------------------- WikidataStatements ------------------------- *)

\* dict.get on the statements dict (a sequence of <<key, value>> pairs)
Dict_get(d, k, default) ==
    IF \E i \in 1..Len(d) : d[i][1] = k
    THEN d[CHOOSE i \in 1..Len(d) : d[i][1] = k][2]
    ELSE default

Dict_keys(d) == [i \in 1..Len(d) |-> d[i][1]]

\* dict.values(): the values in iteration order
Dict_values(d) == [i \in 1..Len(d) |-> d[i][2]]

\* [x for s in lists for x in s]
RECURSIVE Flatten(_)
Flatten(lists) ==
    IF lists = <<>> THEN <<>> ELSE Head(lists) \o Flatten(Tail(lists))

\* WikidataStatements._filter_by_rank(statements, ranks)
Statements_filter_by_rank(statements, ranks) ==
    LET keep(s) == ranks = None \/ Statement_rank(s) \in Range(ranks[1])
    IN  SelectSeq(statements, keep)

\* WikidataStatements.property(property_id, ranks=...)
Statements_property(d, property_id, ranks) ==
    Ok(Statements_filter_by_rank(Dict_get(d, property_id, <<>>), ranks))

Statements_all_unfiltered(d, ranks) == Ok(Flatten(Dict_values(d)))

\* WikidataStatements.all(ranks=...)
Statements_all(d, ranks) ==
    Ok(Statements_filter_by_rank(Flatten(Dict_values(d)), ranks))

\* WikidataStatements.__len__
Statements_len(d) ==
    Ok(Sum([i \in 1..Len(d) |-> Len(d[i][2])]))

(* --------------------- WikidataEntity, WikidataItem ------------------- *)

\* WikidataEntity.id
Entity_id(data) ==
    IF "id" \in DOMAIN data THEN Ok(data.id) ELSE Raise("KeyError")

Entity_init_eager(data) ==
    LET links == make_sitelinks(Get(data, "sitelinks", EmptyDict), data.id)
    IN  IF links.kind = "raise" THEN links
        ELSE Ok([cls |-> "WikidataItem", raw |-> data])

\* WikidataEntity.__init__(data): the record is stored, nothing is decoded
Entity_init(data) == Ok([cls |-> "WikidataItem", raw |-> data])

\* WikidataEntity.labels
Entity_labels(data) ==
    LET id == Entity_id(data)
    IN  IF id.kind = "raise" THEN id
        ELSE Ok([cls |-> "WikidataLabels",
                 raw |-> Get(data, "labels", EmptyDict), entity_id |-> id.value])

\* WikidataEntity.descriptions
Entity_descriptions(data) ==
    LET id == Entity_id(data)
    IN  IF id.kind = "raise" THEN id
        ELSE Ok([cls |-> "WikidataDescriptions",
                 raw |-> Get(data, "descriptions", EmptyDict), entity_id |-> id.value])

\* WikidataEntity.aliases
Entity_aliases(data) ==
    LET id == Entity_id(data)
    IN  IF id.kind = "raise" THEN id
        ELSE Ok([cls |-> "WikidataAliases",
                 raw |-> Get(data, "aliases", EmptyDict), entity_id |-> id.value])

\* WikidataEntity.statements
Entity_statements(data) ==
    LET id == Entity_id(data)
    IN  IF id.kind = "raise" THEN id
        ELSE Ok([cls |-> "WikidataStatements",
                 raw |-> Get(data, "statements", <<>>), qid |-> id.value])

\* WikidataItem.sitelinks
Item_sitelinks(data) ==
    LET id == Entity_id(data)
    IN  IF id.kind = "raise" THEN id
        ELSE make_sitelinks(Get(data, "sitelinks", EmptyDict), id.value)

(* ------------------- the transport and wdq.item(qid) ------------------ *)

\* what one HTTP GET can come to: an entity, an error status with a JSON
\* error body, or no response at all
TransportOutcomes == {"200", "404", "ConnectError"}

\* httpx.get(url) for the item `qid`, under the outcome the network gives
httpx_get(qid, outcome) ==
    IF outcome = "ConnectError" THEN Raise("httpx.ConnectError")
    ELSE IF outcome = "200"
    THEN Ok([status |-> "200", json |-> [id |-> qid]])
    ELSE Ok([status |-> outcome, json |-> [code |-> "item-not-found"]])

\* client.fetch_item(qid): raise_for_status() before json(); wdq.item does
\* not call it
client_fetch_item(qid, outcome) ==
    LET response == httpx_get(qid, outcome)
    IN  IF response.kind = "raise" THEN response
        ELSE IF response.value.status # "200" THEN Raise("httpx.HTTPStatusError")
        ELSE Ok(response.value.json)

\* wdq._fetch_item(qid): response.json() whatever the status
wdq_fetch_item(qid, outcome) ==
    LET response == httpx_get(qid, outcome)
    IN  IF response.kind = "raise" THEN response
        ELSE Ok(response.value.json)

\* wdq.item(qid)
wdq_item(qid, outcome) ==
    LET data == wdq_fetch_item(qid, outcome)
    IN  IF data.kind = "raise" THEN data
        ELSE Ok([cls |-> "wdq.WikidataItem", raw |-> data.value])

\* the names module wdq binds (its imports and definitions) and its submodules
WdqNames ==
    {"ABC", "abstractmethod", "Any", "httpx", "WikidataAliases",
     "WikidataDescriptions", "WikidataLabels", "WikidataSitelinks",
     "make_sitelinks", "WIKIDATA_REST_API_URL", "_fetch_item", "WikidataEntity",
     "WikidataItem", "item", "models", "client", "languages", "sites"}

\* from wdq import <name>
from_wdq_import(name) ==
    IF name \in WdqNames THEN Ok(name) ELSE Raise("ImportError")

\* the fetches WikidataItemValue.resolve() issues
ItemValue_resolve_fetches(v) ==
    IF from_wdq_import("item").kind = "ok" /\ Value_content(v).kind = "ok"
    THEN <<[kind |-> "item", id |-> Value_content(v).value]>>
    ELSE <<>>

\* WikidataItemValue.resolve()
ItemValue_resolve(v, outcome) ==
    LET fetch_item == from_wdq_import("item")
        id == Value_content(v)
    IN  IF fetch_item.kind = "raise" THEN fetch_item
        ELSE IF id.kind = "raise" THEN id
        ELSE wdq_item(id.value, outcome)

\* the fetches WikidataPropertyReference.resolve() issues
PropertyReference_resolve_fetches(prop) ==
    IF from_wdq_import("property").kind = "ok"
    THEN <<[kind |-> "property", id |-> prop.id]>>
    ELSE <<>>

\* WikidataPropertyReference.resolve(): the import comes first, and module wdq
\* binds no name `property`, so the call that would follow it is never made
PropertyReference_resolve(prop, outcome) ==
    LET fetch_property == from_wdq_import("property")
    IN  IF fetch_property.kind = "raise" THEN fetch_property
        ELSE IF outcome = "ConnectError" THEN Raise("httpx.ConnectError")
        ELSE Ok([cls |-> "wdq.WikidataProperty", raw |-> [id |-> prop.id]])

(* ------------------------------- inputs ------------------------------- *)

Langs == {"en", "mul", "fr"}
Texts == {"Universe", "Universum"}
Dicts(K, V) == UNION {[S -> V] : S \in SUBSET K}

Chains == {None} \cup {Some(c) : c \in SeqsUpTo(Langs, MaxChain)}

AliasLists == {<<>>, <<"Cosmos">>, <<"The Universe">>, <<"Cosmos", "The Universe">>}

TextPayloads ==
    {[id |-> "Q1", labels |-> d] : d \in Dicts(Langs, Texts)}
    \cup {[id |-> "Q1", descriptions |-> d] : d \in Dicts(Langs, Texts)}

AliasPayloads == {[id |-> "Q1", aliases |-> d] : d \in Dicts(Langs, AliasLists)}

Sites == {"enwiki", "frwiki"}
\* a badge of the enumeration (good article) and an identifier outside it
BadgeInputs == {"Q17437798", "Q1"}
SitelinkRaws ==
    {[title |-> "Universe", url |-> "https://example.org/Universe"]}
    \cup {[title |-> "Universe", url |-> "https://example.org/Universe", badges |-> b] :
            b \in SeqsUpTo(BadgeInputs, MaxBadges)}

SitelinkPayloads ==
    {[id |-> "Q1", labels |-> [l \in {"en"} |-> "Universe"], sitelinks |-> d] :
        d \in Dicts(Sites, SitelinkRaws)}

PropertyIds == {"P31", "P214", "P1476"}
DataTypeOf(pid) ==
    CASE pid = "P31" -> "wikibase-item"
      [] pid = "P214" -> "external-id"
      [] OTHER -> "monolingualtext"

RawValues ==
    {[type |-> "somevalue"], [type |-> "novalue"],
     [type |-> "value", content |-> "Q5"], [type |-> "value", content |-> "Q42"]}

\* the {property, value} JSON of a statement, qualifier or reference part
Parts ==
    {[property |-> [id |-> pid, data_type |-> DataTypeOf(pid)], value |-> v] :
        pid \in PropertyIds, v \in RawValues}

\* a statement's rank in the source: one of the three ranks, or no rank key
RankInputs == Ranks \cup {"absent"}

MkStatement(pid, i, rank) ==
    LET base == [id |-> <<"Q1", pid, i>>,
                 property |-> [id |-> pid, data_type |-> DataTypeOf(pid)],
                 value |-> [type |-> "value", content |-> "Q5"]]
    IN  IF rank = "absent" THEN base
        ELSE [id |-> base.id, rank |-> rank, property |-> base.property,
              value |-> base.value]

KeyOrders == {<<>>, <<"P31">>, <<"P214">>, <<"P31", "P214">>, <<"P214", "P31">>}

\* statements dicts: the keys in either order, MaxStmts statements in all
StatementDicts ==
    UNION {
      {[i \in 1..Len(keys) |->
          <<keys[i], [j \in 1..Len(rs[i]) |-> MkStatement(keys[i], j, rs[i][j])]>>] :
        rs \in {t \in [1..Len(keys) -> SeqsUpTo(RankInputs, MaxStmts)] :
                  Sum([i \in 1..Len(keys) |-> Len(t[i])]) <= MaxStmts}} :
      keys \in KeyOrders}

StatementPayloads == {[id |-> "Q1", statements |-> d] : d \in StatementDicts}

RankFilters ==
    {None} \cup
    {Some(l) : l \in {<<>>, <<"preferred">>, <<"normal">>, <<"deprecated">>,
                      <<"deprecated", "preferred">>,
                      <<"preferred", "normal", "deprecated">>}}

\* one statement on a property, with at most one qualifier and at most one
\* reference of one part
ValueStatements ==
    {[id |-> <<"Q1", p.property.id, 1>>, property |-> p.property, value |-> p.value] :
        p \in Parts}
    \cup {[id |-> <<"Q1", p.property.id, 1>>, property |-> p.property,
           value |-> p.value, qualifiers |-> <<q>>] : p \in Parts, q \in Parts}
    \cup {[id |-> <<"Q1", p.property.id, 1>>, property |-> p.property,
           value |-> p.value, references |-> <<[hash |-> "h1", parts |-> <<r>>]>>] :
            p \in Parts, r \in Parts}

ValuePayloads ==
    {[id |-> "Q1", statements |-> << <<s.property.id, <<s>> >> >>] : s \in ValueStatements}

ResolvePayloads ==
    {[id |-> "Q1", labels |-> [l \in {"en"} |-> "Universe"],
      statements |-> << <<p.property.id,
                          <<[id |-> <<"Q1", p.property.id, 1>>,
                             property |-> p.property, value |-> p.value]>> >> >>] :
        p \in Parts}

LookupPayloads == AliasPayloads \cup SitelinkPayloads \cup StatementPayloads

(* ------------------------------ operations ---------------------------- *)

NoArgs == <<>>

Call(o, a, r) == op' = o /\ args' = a /\ ret' = r

\* the containers of the entity at hand
labels == Entity_labels(raw).value
descriptions == Entity_descriptions(raw).value
aliases == Entity_aliases(raw).value
statements == Entity_statements(raw).value
\* every statement of the entity, in the order all() lists them
allStatements == Statements_all(statements.raw, None).value

\* WikidataItem(data)
Construct(payloads) ==
    \E data \in payloads :
        LET r == Entity_init(data)
        IN  /\ Call("construct", NoArgs, r)
            /\ raw' = IF r.kind = "ok" THEN data ELSE raw
            /\ UNCHANGED <<fetches, resolves>>

EntityId ==
    Call("id", NoArgs, Entity_id(raw)) /\ UNCHANGED <<raw, fetches, resolves>>

EntityLabels ==
    Call("labels", NoArgs, Entity_labels(raw)) /\ UNCHANGED <<raw, fetches, resolves>>

EntityDescriptions ==
    /\ Call("descriptions", NoArgs, Entity_descriptions(raw))
    /\ UNCHANGED <<raw, fetches, resolves>>

EntityAliases ==
    Call("aliases", NoArgs, Entity_aliases(raw)) /\ UNCHANGED <<raw, fetches, resolves>>

EntityStatements ==
    /\ Call("statements", NoArgs, Entity_statements(raw))
    /\ UNCHANGED <<raw, fetches, resolves>>

ItemSitelinks ==
    Call("sitelinks", NoArgs, Item_sitelinks(raw)) /\ UNCHANGED <<raw, fetches, resolves>>

\* item.sitelinks[key]: the registry must have been built
SitelinksGet ==
    \E key \in Sites :
        /\ Item_sitelinks(raw).kind = "ok"
        /\ Call("sitelinks.get", [key |-> key],
                Sitelinks_getitem(Item_sitelinks(raw).value.links, key))
        /\ UNCHANGED <<raw, fetches, resolves>>

\* len(item.sitelinks)
SitelinksLen ==
    /\ Item_sitelinks(raw).kind = "ok"
    /\ Call("sitelinks.len", NoArgs, Sitelinks_len(Item_sitelinks(raw).value.links))
    /\ UNCHANGED <<raw, fetches, resolves>>

LabelsGet ==
    \E key \in Langs :
        /\ Call("labels.get", [key |-> key],
                LD_getitem(labels.raw, labels.entity_id, key))
        /\ UNCHANGED <<raw, fetches, resolves>>

LabelsDefault ==
    \E chain \in Chains, raise_error \in BOOLEAN :
        /\ Call("labels.default", [fallback_chain |-> chain, raise_error |-> raise_error],
                LD_default(labels.raw, labels.entity_id, chain, raise_error))
        /\ UNCHANGED <<raw, fetches, resolves>>

DescriptionsGet ==
    \E key \in Langs :
        /\ Call("descriptions.get", [key |-> key],
                LD_getitem(descriptions.raw, descriptions.entity_id, key))
        /\ UNCHANGED <<raw, fetches, resolves>>

DescriptionsDefault ==
    \E chain \in Chains, raise_error \in BOOLEAN :
        /\ Call("descriptions.default",
                [fallback_chain |-> chain, raise_error |-> raise_error],
                LD_default(descriptions.raw, descriptions.entity_id, chain, raise_error))
        /\ UNCHANGED <<raw, fetches, resolves>>

AliasesGet ==
    \E key \in Langs :
        /\ Call("aliases.get", [key |-> key], Aliases_getitem(aliases.raw, key))
        /\ UNCHANGED <<raw, fetches, resolves>>

AliasesDefault ==
    \E chain \in Chains :
        /\ Call("aliases.default", [fallback_chain |-> chain],
                Aliases_default(aliases.raw, chain))
        /\ UNCHANGED <<raw, fetches, resolves>>

AliasesAll ==
    Call("aliases.all", NoArgs, Aliases_all(aliases.raw))
    /\ UNCHANGED <<raw, fetches, resolves>>

AliasesNaliases ==
    Call("aliases.naliases", NoArgs, Aliases_naliases(aliases.raw))
    /\ UNCHANGED <<raw, fetches, resolves>>

StatementsProperty ==
    \E property_id \in PropertyIds, ranks \in RankFilters :
        /\ Call("statements.property", [property_id |-> property_id, ranks |-> ranks],
                Statements_property(statements.raw, property_id, ranks))
        /\ UNCHANGED <<raw, fetches, resolves>>

StatementsAll ==
    \E ranks \in RankFilters :
        /\ Call("statements.all", [ranks |-> ranks],
                Statements_all(statements.raw, ranks))
        /\ UNCHANGED <<raw, fetches, resolves>>

StatementsLen ==
    Call("statements.len", NoArgs, Statements_len(statements.raw))
    /\ UNCHANGED <<raw, fetches, resolves>>

\* statement.value of the i-th statement
StatementValue ==
    \E i \in 1..Len(allStatements) :
        /\ Call("statement.value", [i |-> i], Ok(Part_value(allStatements[i])))
        /\ UNCHANGED <<raw, fetches, resolves>>

\* statement.qualifiers[j].value
QualifierValue ==
    \E i \in 1..Len(allStatements) :
        \E j \in 1..Len(Statement_qualifiers(allStatements[i])) :
            /\ Call("qualifier.value", [i |-> i, j |-> j],
                    Ok(Part_value(Statement_qualifiers(allStatements[i])[j])))
            /\ UNCHANGED <<raw, fetches, resolves>>

\* statement.references[j].parts[k].value
ReferencePartValue ==
    \E i \in 1..Len(allStatements) :
        \E j \in 1..Len(Statement_references(allStatements[i])) :
            \E k \in 1..Len(Reference_parts(Statement_references(allStatements[i])[j])) :
                /\ Call("referencepart.value", [i |-> i, j |-> j, k |-> k],
                        Ok(Part_value(
                            Reference_parts(Statement_references(allStatements[i])[j])[k])))
                /\ UNCHANGED <<raw, fetches, resolves>>

\* statement.value.resolve(), for a statement whose value is an item value;
\* the network decides the outcome of the fetch
ItemValueResolve ==
    \E i \in 1..Len(allStatements), outcome \in TransportOutcomes :
        LET v == Part_value(allStatements[i])
        IN  /\ v.cls = "WikidataItemValue"
            /\ resolves < MaxCalls
            /\ Call("itemvalue.resolve", [i |-> i, outcome |-> outcome],
                    ItemValue_resolve(v, outcome))
            /\ fetches' = fetches \o ItemValue_resolve_fetches(v)
            /\ resolves' = resolves + 1
            /\ UNCHANGED raw

\* statement.property.resolve()
PropertyReferenceResolve ==
    \E i \in 1..Len(allStatements), outcome \in TransportOutcomes :
        LET prop == Part_property(allStatements[i])
        IN  /\ resolves < MaxCalls
            /\ Call("property.resolve", [i |-> i, outcome |-> outcome],
                    PropertyReference_resolve(prop, outcome))
            /\ fetches' = fetches \o PropertyReference_resolve_fetches(prop)
            /\ resolves' = resolves + 1
            /\ UNCHANGED raw

(* ---------------------------- specifications -------------------------- *)

\* the state after WikidataItem(data), for data drawn from `payloads`
InitFrom(payloads) ==
    /\ raw \in payloads
    /\ op = "construct"
    /\ args = NoArgs
    /\ ret = Entity_init(raw)
    /\ fetches = <<>>
    /\ resolves = 0

\* labels and descriptions
InitText == InitFrom(TextPayloads)
NextText ==
    \/ LabelsGet
    \/ LabelsDefault
    \/ DescriptionsGet
    \/ DescriptionsDefault
SpecText == InitText /\ [][NextText]_vars

\* aliases
InitAliases == InitFrom(AliasPayloads)
NextAliases ==
    \/ AliasesGet
    \/ AliasesDefault
    \/ AliasesAll
    \/ AliasesNaliases
SpecAliases == InitAliases /\ [][NextAliases]_vars

\* the statement collection
InitStatements == InitFrom(StatementPayloads)
NextStatements ==
    \/ StatementsProperty
    \/ StatementsAll
    \/ StatementsLen
SpecStatements == InitStatements /\ [][NextStatements]_vars

\* the values of statements, qualifiers and reference parts
InitValues == InitFrom(ValuePayloads)
NextValues ==
    \/ StatementValue
    \/ QualifierValue
    \/ ReferencePartValue
SpecValues == InitValues /\ [][NextValues]_vars

\* an item and its accessors
InitEntity == InitFrom(SitelinkPayloads)
NextEntity ==
    \/ Construct(SitelinkPayloads)
    \/ EntityId
    \/ EntityLabels
    \/ EntityDescriptions
    \/ EntityAliases
    \/ EntityStatements
    \/ ItemSitelinks
    \/ SitelinksGet
    \/ SitelinksLen
SpecEntity == InitEntity /\ [][NextEntity]_vars

\* the get-style accessors
InitLookup == InitFrom(LookupPayloads)
NextLookup ==
    \/ SitelinksGet
    \/ AliasesGet
    \/ StatementsProperty
SpecLookup == InitLookup /\ [][NextLookup]_vars

\* construction, reads, value resolution and resolve()
InitResolve == InitFrom(ResolvePayloads)
NextResolve ==
    \/ Construct(ResolvePayloads)
    \/ EntityId
    \/ EntityLabels
    \/ EntityStatements
    \/ LabelsGet
    \/ StatementsAll
    \/ StatementValue
    \/ ItemValueResolve
    \/ PropertyReferenceResolve
SpecResolve == InitResolve /\ [][NextResolve]_vars

(* -------------------------------- claims ------------------------------ *)

\* the smallest member of a non-empty set of numbers
Least(S) == CHOOSE i \in S : \A k \in S : i <= k

\* the j-th smallest member of S
Nth(S, j) == CHOOSE i \in S : Cardinality({k \in S : k <= i}) = j

\* the statement, qualifier or reference part whose value was last read
ActedPart ==
    CASE op = "statement.value" -> allStatements[args.i]
      [] op = "qualifier.value" -> Statement_qualifiers(allStatements[args.i])[args.j]
      [] op = "referencepart.value" ->
            Reference_parts(Statement_references(allStatements[args.i])[args.j])[args.k]

ValueOps == {"statement.value", "qualifier.value", "referencepart.value"}

\* C1: the value of a statement, qualifier or reference part is SomeValue for
\* raw type "somevalue" and NoValue for "novalue" whatever the datatype;
\* otherwise an item value whose id is the raw content for datatype
\* "wikibase-item"; otherwise an external identifier with id = raw content and
\* the given property reference for "external-id"; otherwise a generic value
\* with the raw content and the property's datatype.  Any other part with the
\* same (raw type, datatype) resolves to the same variant.
C1_ValueResolver ==
    op \in ValueOps =>
        LET prop == [id |-> ActedPart.property.id,
                     data_type |-> ActedPart.property.data_type]
            value == ActedPart.value
            r == ret.value
        IN  /\ ret.kind = "ok"
            /\ IF value.type = "somevalue" THEN r.cls = "WikidataSomeValue"
               ELSE IF value.type = "novalue" THEN r.cls = "WikidataNoValue"
               ELSE IF prop.data_type = "wikibase-item"
               THEN r.cls = "WikidataItemValue" /\ Value_content(r) = Ok(value.content)
               ELSE IF prop.data_type = "external-id"
               THEN /\ r.cls = "WikidataExternalIdentifierValue"
                    /\ Value_content(r) = Ok(value.content)
                    /\ r.prop = prop
               ELSE /\ r.cls = "WikidataValue"
                    /\ Value_content(r) = Ok(value.content)
                    /\ r.type = prop.data_type
            /\ \A other \in Parts :
                 (other.value.type = value.type
                    /\ other.property.data_type = prop.data_type)
                 => Part_value(other).cls = r.cls

\* C1 witness: a qualifier on an item-typed property with an unknown value
\* resolved to SomeValue, not to an item value
C1_Witness ==
    /\ op = "qualifier.value"
    /\ ActedPart.property.data_type = "wikibase-item"
    /\ ActedPart.value.type = "somevalue"
    /\ ret.value.cls = "WikidataSomeValue"

\* C2: the number of fetches issued to the transport equals the number of
\* resolve() calls made, whatever operations ran
C2_FetchesEqualResolves == Len(fetches) = resolves

\* the fetches the resolve() call last made issued
LastResolveFetches ==
    IF op = "itemvalue.resolve"
    THEN ItemValue_resolve_fetches(Part_value(allStatements[args.i]))
    ELSE PropertyReference_resolve_fetches(Part_property(allStatements[args.i]))

\* C8: a resolve() call whose fetch failed (no response, or an error status)
\* fails with the transport's error and returns no entity
C8_TransportFailurePropagates ==
    (/\ op \in {"itemvalue.resolve", "property.resolve"}
     /\ LastResolveFetches # <<>>
     /\ args.outcome # "200")
    => (ret.kind = "raise"
        /\ ret.error \in {"httpx.ConnectError", "httpx.HTTPStatusError"})

\* the text container the last labels/descriptions call was made on
ActedText ==
    IF op \in {"labels.get", "labels.default"} THEN labels ELSE descriptions

\* C3: default(chain, raise_error) returns (L, text of L) for the first
\* language L of the chain that the container holds, the chain being
\* ["mul", "en"] when none is given; when the container holds none of them it
\* raises KeyError if raise_error and returns (None, entity id) otherwise
C3_ResolveWithFallback ==
    op \in {"labels.default", "descriptions.default"} =>
        LET d == ActedText.raw
            chain == IF args.fallback_chain = None THEN <<"mul", "en">>
                     ELSE args.fallback_chain[1]
            hits == {i \in 1..Len(chain) : chain[i] \in DOMAIN d}
        IN  IF hits # {}
            THEN ret = Ok(<<Some(chain[Least(hits)]), d[chain[Least(hits)]]>>)
            ELSE IF args.raise_error THEN ret = Raise("KeyError")
            ELSE ret = Ok(<<None, raw.id>>)

\* C3 witness: a chain whose first language is missing and whose second is
\* present, resolved to the second
C3_Witness ==
    /\ op = "labels.default"
    /\ args.fallback_chain = Some(<<"fr", "en">>)
    /\ args.raise_error
    /\ "fr" \notin DOMAIN labels.raw
    /\ "en" \in DOMAIN labels.raw
    /\ "mul" \in DOMAIN labels.raw
    /\ ret = Ok(<<Some("en"), labels.raw["en"]>>)

\* C4: get(language) returns the text of the first of language, "mul", "en"
\* that the container holds, and raises KeyError exactly when it holds none
C4_TextGet ==
    op \in {"labels.get", "descriptions.get"} =>
        LET d == ActedText.raw
        IN  IF args.key \in DOMAIN d THEN ret = Ok(d[args.key])
            ELSE IF "mul" \in DOMAIN d THEN ret = Ok(d["mul"])
            ELSE IF "en" \in DOMAIN d THEN ret = Ok(d["en"])
            ELSE ret = Raise("KeyError")

\* C4 witness: a language that is missing, like "mul" and "en", raised
C4_Witness ==
    /\ op = "labels.get"
    /\ args.key = "fr"
    /\ DOMAIN labels.raw = {}
    /\ ret = Raise("KeyError")

\* C5: aliases get(language) is the union of the aliases under that language
\* and those under "mul"; an alias held only under "en" is returned only for
\* language "en"
C5_AliasGet ==
    op = "aliases.get" =>
        LET d == aliases.raw
            under(l) == IF l \in DOMAIN d THEN Range(d[l]) ELSE {}
        IN  /\ ret = Ok(under(args.key) \cup under("mul"))
            /\ \A a \in under("en") \ under("mul") :
                 a \in ret.value => (args.key = "en" \/ a \in under(args.key))

\* C5 witness: "fr" asked of a container holding an alias under "en" only
C5_Witness ==
    /\ op = "aliases.get"
    /\ args.key = "fr"
    /\ "en" \in DOMAIN aliases.raw
    /\ "mul" \in DOMAIN aliases.raw
    /\ "fr" \notin DOMAIN aliases.raw
    /\ aliases.raw["mul"] = <<"Cosmos">>
    /\ aliases.raw["en"] = <<"The Universe">>
    /\ ret = Ok({"Cosmos"})

\* the rank of a statement as the source gives it, normal when it gives none
SourceRank(s) == IF "rank" \in DOMAIN s THEN s.rank ELSE "normal"

\* the statements the source holds under a property id
Stored(property_id) ==
    LET d == statements.raw
        at == {i \in 1..Len(d) : d[i][1] = property_id}
    IN  IF at = {} THEN <<>> ELSE d[Least(at)][2]

\* C6: property(property_id, ranks) returns the statements held under the
\* property id whose rank is in ranks, in source order, a statement without a
\* rank counting as normal; all of them when ranks is None, none when it is []
C6_ByProperty ==
    op = "statements.property" =>
        LET stored == Stored(args.property_id)
            kept == {i \in 1..Len(stored) :
                       args.ranks = None
                       \/ SourceRank(stored[i]) \in Range(args.ranks[1])}
        IN  /\ ret.kind = "ok"
            /\ Len(ret.value) = Cardinality(kept)
            /\ \A j \in 1..Len(ret.value) : ret.value[j] = stored[Nth(kept, j)]
            /\ args.ranks = None => ret.value = stored
            /\ args.ranks = Some(<<>>) => ret.value = <<>>

\* C6 witness: three statements, the first and the last normal (one of them
\* by default), filtered to normal
C6_Witness ==
    /\ op = "statements.property"
    /\ args.ranks = Some(<<"normal">>)
    /\ Len(Stored(args.property_id)) = 3
    /\ "rank" \notin DOMAIN Stored(args.property_id)[1]
    /\ SourceRank(Stored(args.property_id)[2]) = "preferred"
    /\ SourceRank(Stored(args.property_id)[3]) = "normal"
    /\ "rank" \in DOMAIN Stored(args.property_id)[3]
    /\ ret.value = <<Stored(args.property_id)[1], Stored(args.property_id)[3]>>

\* the accessors of an entity other than its sitelinks
EntityOps == {"construct", "id", "labels", "descriptions", "aliases", "statements"}

\* some sitelink of the record holds a badge outside the enumeration
HasUnknownBadge(data) ==
    /\ "sitelinks" \in DOMAIN data
    /\ \E site \in DOMAIN data.sitelinks :
         /\ "badges" \in DOMAIN data.sitelinks[site]
         /\ \E i \in 1..Len(data.sitelinks[site].badges) :
              data.sitelinks[site].badges[i] \notin BadgeIds

\* C7: with a badge outside the enumeration in some sitelink, construction
\* and the id, labels, descriptions, aliases and statements accessors succeed;
\* only the sitelinks accessor fails, with ValueError
C7_LazyBadgeValidation ==
    HasUnknownBadge(raw) =>
        /\ op \in EntityOps => ret.kind = "ok"
        /\ op = "sitelinks" => ret = Raise("ValueError")
        /\ op \in EntityOps \cup {"sitelinks"}

\* C7 witness: the labels of an entity with an unknown badge were read
C7_Witness ==
    /\ HasUnknownBadge(raw)
    /\ op = "labels"
    /\ ret.kind = "ok"
    /\ ret.value.raw = [l \in {"en"} |-> "Universe"]

\* the key the last get-style call asked for has no entry and no fallback
NoEntry ==
    CASE op = "sitelinks.get" -> args.key \notin DOMAIN Get(raw, "sitelinks", EmptyDict)
      [] op = "aliases.get" -> args.key \notin DOMAIN aliases.raw
                               /\ "mul" \notin DOMAIN aliases.raw
      [] op = "statements.property" ->
            \A i \in 1..Len(statements.raw) : statements.raw[i][1] # args.property_id
      [] OTHER -> FALSE

\* C9 as claimed: every get-style accessor raises KeyError for a key with no
\* entry and no fallback entry
C9_EveryGetRaises == NoEntry => ret = Raise("KeyError")

\* C9 as the code has it: for a key with no entry, sitelinks get raises
\* KeyError, aliases get (with no "mul" either) returns the empty set and
\* statements property returns the empty list
C9_AbsentKey ==
    NoEntry =>
        CASE op = "sitelinks.get" -> ret = Raise("KeyError")
          [] op = "aliases.get" -> ret = Ok({})
          [] op = "statements.property" -> ret = Ok(<<>>)

\* C9 witness: "fr" asked of an alias container holding "en" only came back
\* as the empty set
C9_Witness ==
    /\ op = "aliases.get"
    /\ args.key = "fr"
    /\ DOMAIN aliases.raw = {"en"}
    /\ aliases.raw["en"] = <<"The Universe">>
    /\ ret = Ok({})

\* byProperty over every key of the statements dict, in iteration order
RECURSIVE ConcatByProperty(_, _, _)
ConcatByProperty(d, keys, ranks) ==
    IF keys = <<>> THEN <<>>
    ELSE Statements_property(d, Head(keys), ranks).value
         \o ConcatByProperty(d, Tail(keys), ranks)

\* C10: all(ranks) is the concatenation, over the property ids in iteration
\* order, of property(id, ranks); without a filter its length is the sum of
\* the property() lengths, which is len(), and len() counts every statement
C10_AllIsConcatenation ==
    LET d == statements.raw
        keys == Dict_keys(d)
    IN  /\ op = "statements.all" =>
              /\ ret = Ok(ConcatByProperty(d, keys, args.ranks))
              /\ args.ranks = None =>
                   /\ Len(ret.value)
                        = Sum([i \in 1..Len(keys) |->
                                 Len(Statements_property(d, keys[i], None).value)])
                   /\ Len(ret.value) = Statements_len(d).value
        /\ op = "statements.len" =>
              ret = Ok(Sum([i \in 1..Len(keys) |-> Len(Stored(keys[i]))]))

\* C10 witness: two properties, the second one's statement filtered out
C10_Witness ==
    /\ op = "statements.all"
    /\ args.ranks = Some(<<"preferred">>)
    /\ Dict_keys(statements.raw) = <<"P214", "P31">>
    /\ Len(Stored("P214")) = 2
    /\ Len(Stored("P31")) = 1
    /\ ret.value = <<Stored("P214")[2]>>

====
